---------------------------- MODULE Spec2Model ----------------------------
(***************************************************************************)
(* DashboardClient of the Universal Robots client library                  *)
(* (src/src/ur/dashboard_client.cpp, dashboard_client.h): the exchange of  *)
(* one command line for one reply line under write_mutex_, the version     *)
(* gate lessThanVersion, the poll loop waitForReply, the retry loop        *)
(* retryCommand, connect/disconnect and the catalog of command.. methods.  *)
(*                                                                         *)
(* Text is modelled character by character: a string is a sequence of      *)
(* one-character strings.  A std::regex is a sequence of pattern elements: *)
(* a one-character string is a literal, DOT is "." and STAR is ".*"        *)
(* (the non-capturing groups "(?:" ")" of the source change nothing).      *)
(***************************************************************************)
EXTENDS Integers, Sequences, FiniteSets, TLC

\* ------------------------------------------------------------------ bounds
\* The most status replies that may fail to match in one waitForReply where
\* the poll loop is capped (it then sends at most MaxMismatch + 1 queries).
MaxMismatch == 1
\* The largest timeout handed to waitForReply by a direct caller, in quarters
\* of a second (4 = 1.0 s).
MaxTimeoutQ == 4
\* The largest attempt budget handed to retryCommand / commandPowerOn.
MaxAttempts == 2
MaxTrimLen == 3

\* -------------------------------------------------------------------- text
\* The version strings the commands hand to lessThanVersion
\* (dashboard_client.cpp:225-495).
Version ==
    [v5_0_0 |-> <<"5",".","0",".","0">>,
     v5_1_0 |-> <<"5",".","1",".","0">>,
     v5_4_0 |-> <<"5",".","4",".","0">>,
     v5_6_0 |-> <<"5",".","6",".","0">>,
     v5_8_0 |-> <<"5",".","8",".","0">>,
     v1_4 |-> <<"1",".","4">>,
     v1_6 |-> <<"1",".","6">>,
     v1_8 |-> <<"1",".","8">>,
     v3_0 |-> <<"3",".","0">>,
     v3_1 |-> <<"3",".","1">>,
     v3_2 |-> <<"3",".","2">>,
     v3_7 |-> <<"3",".","7">>,
     v3_11 |-> <<"3",".","1","1">>,
     v3_12 |-> <<"3",".","1","2">>,
     v3_13 |-> <<"3",".","1","3">>]
\* The texts of the commands that are for one variant only.
OnlyESeries == <<"1","0","."," ","O","n","l","y"," ","a","v","a","i","l","a","b","l","e"," ",
    "o","n"," ","e","-","s","e","r","i","e","s"," ","r","o","b","o","t">>
OnlyCB3 == <<"1","0","."," ","O","n","l","y"," ","a","v","a","i","l","a","b","l","e"," ","o",
    "n"," ","C","B","3"," ","r","o","b","o","t">>
\* The literal parts of the expected-reply patterns (dashboard_client.cpp:227-501).
Pattern ==
    [Powering_off |-> <<"P","o","w","e","r","i","n","g"," ","o","f","f">>,
     Powering_on |-> <<"P","o","w","e","r","i","n","g"," ","o","n">>,
     Brake_releasing |-> <<"B","r","a","k","e"," ","r","e","l","e","a","s","i","n","g">>,
     Loading_program |-> <<"L","o","a","d","i","n","g"," ","p","r","o","g","r","a","m",":"," ">>,
     Loading_installation |-> <<"L","o","a","d","i","n","g"," ","i","n","s","t","a","l","l","a",
         "t","i","o","n",":"," ">>,
     Starting_program |-> <<"S","t","a","r","t","i","n","g"," ","p","r","o","g","r","a","m">>,
     Pausing_program |-> <<"P","a","u","s","i","n","g"," ","p","r","o","g","r","a","m">>,
     Stopped |-> <<"S","t","o","p","p","e","d">>,
     closing_popup |-> <<"c","l","o","s","i","n","g"," ","p","o","p","u","p">>,
     closing_safety_popup |-> <<"c","l","o","s","i","n","g"," ","s","a","f","e","t","y"," ","p",
         "o","p","u","p">>,
     Restarting_safety |-> <<"R","e","s","t","a","r","t","i","n","g"," ","s","a","f","e","t",
         "y">>,
     Protective_stop_releasing |-> <<"P","r","o","t","e","c","t","i","v","e"," ","s","t","o",
         "p"," ","r","e","l","e","a","s","i","n","g">>,
     Shutting_down |-> <<"S","h","u","t","t","i","n","g"," ","d","o","w","n">>,
     Disconnected |-> <<"D","i","s","c","o","n","n","e","c","t","e","d">>,
     Program_running_true |-> <<"P","r","o","g","r","a","m"," ","r","u","n","n","i","n","g",":",
         " ","t","r","u","e">>,
     true_sp |-> <<"t","r","u","e"," ">>,
     true |-> <<"t","r","u","e">>,
     showing_popup |-> <<"s","h","o","w","i","n","g"," ","p","o","p","u","p">>,
     Added_log_message |-> <<"A","d","d","e","d"," ","l","o","g"," ","m","e","s","s","a","g",
         "e">>,
     URSoftware |-> <<"U","R","S","o","f","t","w","a","r","e"," ">>,
     UR |-> <<"U","R">>,
     twenty |-> <<"2","0">>,
     Robotmode |-> <<"R","o","b","o","t","m","o","d","e",":"," ">>,
     Robotmode_POWER_OFF |-> <<"R","o","b","o","t","m","o","d","e",":"," ","P","O","W","E","R",
         "_","O","F","F">>,
     Robotmode_IDLE |-> <<"R","o","b","o","t","m","o","d","e",":"," ","I","D","L","E">>,
     Robotmode_RUNNING |-> <<"R","o","b","o","t","m","o","d","e",":"," ","R","U","N","N","I",
         "N","G">>,
     Loaded_program |-> <<"L","o","a","d","e","d"," ","p","r","o","g","r","a","m",":"," ">>,
     Safetymode |-> <<"S","a","f","e","t","y","m","o","d","e",":"," ">>,
     Safetystatus |-> <<"S","a","f","e","t","y","s","t","a","t","u","s",":"," ">>,
     STOPPED_sp |-> <<"S","T","O","P","P","E","D"," ">>,
     PLAYING_sp |-> <<"P","L","A","Y","I","N","G"," ">>,
     PAUSED_sp |-> <<"P","A","U","S","E","D"," ">>,
     could_not_understand |-> <<"c","o","u","l","d"," ","n","o","t"," ","u","n","d","e","r","s",
         "t","a","n","d">>,
     Operational_mode |-> <<"O","p","e","r","a","t","i","o","n","a","l"," ","m","o","d","e",
         " ">>,
     No_longer_controlling |-> <<"N","o"," ","l","o","n","g","e","r"," ","c","o","n","t","r",
         "o","l","l","i","n","g"," ","t","h","e"," ","o","p","e","r","a","t","i","o","n","a",
         "l"," ","m","o","d","e","."," ">>,
     Setting_user_role |-> <<"S","e","t","t","i","n","g"," ","u","s","e","r"," ","r","o","l",
         "e",":"," ">>,
     Flight_Report_generated |-> <<"F","l","i","g","h","t"," ","R","e","p","o","r","t"," ","g",
         "e","n","e","r","a","t","e","d"," ","w","i","t","h"," ","i","d",":">>,
     Completed_successfully |-> <<"C","o","m","p","l","e","t","e","d"," ","s","u","c","c","e",
         "s","s","f","u","l","l","y",":">>]
\* The arguments the callers pass in.
Argument ==
    [program |-> <<"d","e","m","o",".","u","r","p">>,
     installation |-> <<"a",".","i","n","s","t","a","l","l","a","t","i","o","n">>,
     popup |-> <<"h","i">>,
     mode |-> <<"m","a","n","u","a","l">>,
     role |-> <<"o","p","e","r","a","t","o","r">>,
     report |-> <<"s","y","s","t","e","m">>,
     dir |-> <<"/","p","r","o","g","r","a","m","s">>]
\* The lines of the dashboard server, as they arrive on the stream.
Line ==
    [Powering_off |-> <<"P","o","w","e","r","i","n","g"," ","o","f","f","\n">>,
     Powering_on |-> <<"P","o","w","e","r","i","n","g"," ","o","n","\n">>,
     Brake_releasing |-> <<"B","r","a","k","e"," ","r","e","l","e","a","s","i","n","g","\n">>,
     Loading_program |-> <<"L","o","a","d","i","n","g"," ","p","r","o","g","r","a","m",":"," ",
         "d","e","m","o",".","u","r","p","\n">>,
     Loading_installation |-> <<"L","o","a","d","i","n","g"," ","i","n","s","t","a","l","l","a",
         "t","i","o","n",":"," ","a",".","i","n","s","t","a","l","l","a","t","i","o","n","\n">>,
     Starting_program |-> <<"S","t","a","r","t","i","n","g"," ","p","r","o","g","r","a","m",
         "\n">>,
     Pausing_program |-> <<"P","a","u","s","i","n","g"," ","p","r","o","g","r","a","m","\n">>,
     Stopped |-> <<"S","t","o","p","p","e","d","\n">>,
     closing_popup |-> <<"c","l","o","s","i","n","g"," ","p","o","p","u","p","\n">>,
     closing_safety_popup |-> <<"c","l","o","s","i","n","g"," ","s","a","f","e","t","y"," ","p",
         "o","p","u","p","\n">>,
     Restarting_safety |-> <<"R","e","s","t","a","r","t","i","n","g"," ","s","a","f","e","t",
         "y","\n">>,
     Protective_stop_releasing |-> <<"P","r","o","t","e","c","t","i","v","e"," ","s","t","o",
         "p"," ","r","e","l","e","a","s","i","n","g","\n">>,
     Shutting_down |-> <<"S","h","u","t","t","i","n","g"," ","d","o","w","n","\n">>,
     Disconnected |-> <<"D","i","s","c","o","n","n","e","c","t","e","d","\n">>,
     true |-> <<"t","r","u","e","\n">>,
     showing_popup |-> <<"s","h","o","w","i","n","g"," ","p","o","p","u","p","\n">>,
     Added_log_message |-> <<"A","d","d","e","d"," ","l","o","g"," ","m","e","s","s","a","g",
         "e","\n">>,
     Robotmode_POWER_OFF |-> <<"R","o","b","o","t","m","o","d","e",":"," ","P","O","W","E","R",
         "_","O","F","F","\r","\n">>,
     Robotmode_IDLE |-> <<"R","o","b","o","t","m","o","d","e",":"," ","I","D","L","E","\r",
         "\n">>,
     Robotmode_RUNNING |-> <<"R","o","b","o","t","m","o","d","e",":"," ","R","U","N","N","I",
         "N","G","\n">>,
     Loaded_program |-> <<"L","o","a","d","e","d"," ","p","r","o","g","r","a","m",":"," ","d",
         "e","m","o",".","u","r","p","\n">>,
     Safetymode |-> <<"S","a","f","e","t","y","m","o","d","e",":"," ","N","O","R","M","A","L",
         "\n">>,
     Safetystatus |-> <<"S","a","f","e","t","y","s","t","a","t","u","s",":"," ","N","O","R","M",
         "A","L","\n">>,
     No_longer_controlling |-> <<"N","o"," ","l","o","n","g","e","r"," ","c","o","n","t","r",
         "o","l","l","i","n","g"," ","t","h","e"," ","o","p","e","r","a","t","i","o","n","a",
         "l"," ","m","o","d","e","."," ","C","u","r","r","e","n","t",":"," ","'","A","U","T",
         "O","'",".","\n">>,
     Setting_user_role |-> <<"S","e","t","t","i","n","g"," ","u","s","e","r"," ","r","o","l",
         "e",":"," ","O","P","E","R","A","T","O","R","\n">>,
     greeting |-> <<"C","o","n","n","e","c","t","e","d",":"," ","U","n","i","v","e","r","s","a",
         "l"," ","R","o","b","o","t","s"," ","D","a","s","h","b","o","a","r","d"," ","S","e",
         "r","v","e","r","\n">>,
     not_understood |-> <<"c","o","u","l","d"," ","n","o","t"," ","u","n","d","e","r","s","t",
         "a","n","d",":"," ","x","\n">>,
     running_true |-> <<"P","r","o","g","r","a","m"," ","r","u","n","n","i","n","g",":"," ","t",
         "r","u","e","\n">>,
     running_false |-> <<"P","r","o","g","r","a","m"," ","r","u","n","n","i","n","g",":"," ",
         "f","a","l","s","e","\n">>,
     saved_true |-> <<"t","r","u","e"," ","d","e","m","o",".","u","r","p","\n">>,
     saved_false |-> <<"f","a","l","s","e"," ","d","e","m","o",".","u","r","p","\n">>,
     false |-> <<"f","a","l","s","e","\n">>,
     robot_model |-> <<"U","R","5","\n">>,
     serial_number |-> <<"2","0","1","7","5","5","9","9","9","9","9","\n">>,
     STOPPED |-> <<"S","T","O","P","P","E","D"," ","d","e","m","o",".","u","r","p","\n">>,
     PLAYING |-> <<"P","L","A","Y","I","N","G"," ","d","e","m","o",".","u","r","p","\n">>,
     PAUSED |-> <<"P","A","U","S","E","D"," ","d","e","m","o",".","u","r","p","\n">>,
     operational_mode |-> <<"M","A","N","U","A","L","\n">>,
     Operational_mode_set |-> <<"O","p","e","r","a","t","i","o","n","a","l"," ","m","o","d","e",
         " ","'","m","a","n","u","a","l","'"," ","i","s"," ","s","e","t","\n">>,
     user_role |-> <<"O","P","E","R","A","T","O","R","\n">>,
     Flight_Report |-> <<"F","l","i","g","h","t"," ","R","e","p","o","r","t"," ","g","e","n",
         "e","r","a","t","e","d"," ","w","i","t","h"," ","i","d",":","7","\n">>,
     Completed |-> <<"C","o","m","p","l","e","t","e","d"," ","s","u","c","c","e","s","s","f",
         "u","l","l","y",":"," ","a",".","z","i","p","\n">>,
     version_3_0 |-> <<"U","R","S","o","f","t","w","a","r","e"," ","3",".","0"," ","(","2","0",
         "1","4",")","\n">>,
     version_3_9 |-> <<"U","R","S","o","f","t","w","a","r","e"," ","3",".","9"," ","(","2","0",
         "1","9",")","\n">>,
     version_3_14 |-> <<"U","R","S","o","f","t","w","a","r","e"," ","3",".","1","4",".","3",".",
         "1","0","1","0","1","0","7"," ","(","2","0","2","1",")","\n">>,
     version_5_0_0 |-> <<"U","R","S","o","f","t","w","a","r","e"," ","5",".","0",".","0"," ",
         "(","2","0","1","8",")","\n">>,
     version_5_5_1 |-> <<"U","R","S","o","f","t","w","a","r","e"," ","5",".","5",".","1",".",
         "1","0"," ","(","2","0","1","9",")","\n">>,
     version_5_9_4 |-> <<"U","R","S","o","f","t","w","a","r","e"," ","5",".","9",".","4"," ",
         "(","2","0","2","1",")","\n">>,
     version_10_1_0 |-> <<"U","R","S","o","f","t","w","a","r","e"," ","1","0",".","1",".","0",
         " ","(","2","0","2","4",")","\n">>]

\* --------------------------------------------------------- string helpers
DOT == "DOT"
STAR == "STAR"
Digits == {"0","1","2","3","4","5","6","7","8","9"}
\* The default argument of rtrim: "\t\n\v\f\r " ("\\v" stands for the vertical tab).
TrimChars == {"\t", "\n", "\\v", "\f", "\r", " "}
\* What std::istream skips before a number (std::isspace).
Space == TrimChars
\* What "." of an ECMAScript regex does not match.
LineTerminators == {"\n", "\r"}
\* std::string::npos, as the result of a failed find.
npos == 0 - 1

DigitValue(ch) ==
    CASE ch = "0" -> 0 [] ch = "1" -> 1 [] ch = "2" -> 2 [] ch = "3" -> 3 [] ch = "4" -> 4
      [] ch = "5" -> 5 [] ch = "6" -> 6 [] ch = "7" -> 7 [] ch = "8" -> 8 [] ch = "9" -> 9

\* A literal piece of a regex string: every "." in it is the wildcard.
RegexOf(s) == [i \in 1..Len(s) |-> IF s[i] = "." THEN DOT ELSE s[i]]

\* std::regex_match(s, std::regex(p)): the whole of s against the whole of p.
RECURSIVE MatchFrom(_, _, _, _)
MatchFrom(p, i, s, j) ==
    IF i > Len(p) THEN j > Len(s)
    ELSE IF p[i] = STAR
         THEN \E k \in j..(Len(s) + 1) :
                  /\ \A m \in j..(k - 1) : s[m] \notin LineTerminators
                  /\ MatchFrom(p, i + 1, s, k)
    ELSE /\ j <= Len(s)
         /\ IF p[i] = DOT THEN s[j] \notin LineTerminators ELSE s[j] = p[i]
         /\ MatchFrom(p, i + 1, s, j + 1)

regex_match(s, p) == MatchFrom(p, 1, s, 1)

\* str.find_last_not_of(chars) + 1: the length of str without its trailing chars.
LastNotOf(str, chars) ==
    LET keep == {i \in 1..Len(str) : str[i] \notin chars}
    IN  IF keep = {} THEN 0 ELSE CHOOSE i \in keep : \A k \in keep : k <= i

\* Mutation of rtrim: only the newline is taken off.
rtrim_newline_only(str) == SubSeq(str, 1, LastNotOf(str, {"\n"}))
\* DashboardClient::rtrim with its default chars.
rtrim(str) == SubSeq(str, 1, LastNotOf(str, TrimChars))

\* size_t read_chars = 99;
read_chars == 99

\* DashboardClient::read() on the bytes the socket holds.  "while (read_chars >
\* 0)" is entered with 99; each TCPSocket::read of one byte then stores the
\* number of bytes it read, 1, in read_chars, so the loop is left by "break"
\* on '\n' alone, or by the throw when no byte comes within the receive
\* timeout (ok is FALSE then).
read(bytes) ==
    LET ends == {i \in 1..Len(bytes) : bytes[i] = "\n"}
    IN  IF read_chars > 0
        THEN IF ends = {} THEN [ok |-> FALSE, result |-> bytes]
             ELSE [ok |-> TRUE,
                   result |-> SubSeq(bytes, 1, CHOOSE i \in ends : \A k \in ends : i <= k)]
        ELSE [ok |-> TRUE, result |-> <<>>]

\* std::string::find(pat): the 0-based index of the first occurrence, or npos.
find(str, pat) ==
    LET at == {i \in 0..(Len(str) - Len(pat)) : SubSeq(str, i + 1, i + Len(pat)) = pat}
    IN  IF at = {} THEN npos ELSE CHOOSE i \in at : \A k \in at : i <= k

\* std::string::substr(pos, count) for pos <= size; count is a size_t, so a
\* negative difference is a huge count and the rest of the string is taken.
substr(str, pos, count) ==
    IF count < 0 \/ pos + count > Len(str)
    THEN SubSeq(str, pos + 1, Len(str))
    ELSE SubSeq(str, pos + 1, pos + count)

\* ----------------------------------------------------------- parseSWVersion
\* The value an uninitialized int or bool holds: whatever the stack held.
Indeterminate == {-1, 0, 2147483647}
\* An uninitialized int[4].  Every slot holds the same indeterminate value:
\* lexicographical_compare is decided at the first index where the arrays
\* differ, and each verdict it can reach with four independent slots it also
\* reaches with these.
IndeterminateArrays == {<<g, g, g, g>> : g \in Indeterminate}

RECURSIVE SkipSpace(_, _)
SkipSpace(s, pos) ==
    IF pos <= Len(s) /\ s[pos] \in Space THEN SkipSpace(s, pos + 1) ELSE pos

RECURSIVE ReadDigits(_, _, _)
ReadDigits(s, pos, acc) ==
    IF pos <= Len(s) /\ s[pos] \in Digits
    THEN ReadDigits(s, pos + 1, [val |-> acc.val * 10 + DigitValue(s[pos]), pos |-> pos + 1])
    ELSE acc

\* parser >> result[idx] on the stream st = [pos, good]: a stream that is not
\* good leaves the int untouched; no digit stores 0 and fails the stream;
\* reading up to the end of the input sets eofbit, so the stream is no longer good.
Extract(s, st, old) ==
    IF ~st.good THEN [val |-> old, st |-> st]
    ELSE LET p0 == SkipSpace(s, st.pos)
         IN  IF p0 > Len(s) THEN [val |-> old, st |-> [pos |-> p0, good |-> FALSE]]
             ELSE LET neg == s[p0] = "-"
                      p1 == IF s[p0] \in {"-", "+"} THEN p0 + 1 ELSE p0
                      d == ReadDigits(s, p1, [val |-> 0, pos |-> p1])
                  IN  IF d.pos = p1 THEN [val |-> 0, st |-> [pos |-> p1, good |-> FALSE]]
                      ELSE [val |-> IF neg THEN 0 - d.val ELSE d.val,
                            st |-> [pos |-> d.pos, good |-> d.pos <= Len(s)]]

\* parser.get(): one character off a good stream, whatever it is.
Get(s, st) ==
    IF st.good /\ st.pos <= Len(s) THEN [st EXCEPT !.pos = st.pos + 1]
    ELSE [st EXCEPT !.good = FALSE]

\* DashboardClient::parseSWVersion(result, input): result comes in as the
\* caller's uninitialized array and goes out with the slots the stream filled.
parseSWVersion(result, input) ==
    LET e0 == Extract(input, [pos |-> 1, good |-> TRUE], result[1])
        e1 == Extract(input, Get(input, e0.st), result[2])
        e2 == Extract(input, Get(input, e1.st), result[3])
        e3 == Extract(input, Get(input, e2.st), result[4])
    IN  <<e0.val, e1.val, e2.val, e3.val>>

\* std::lexicographical_compare(a, a + 4, b, b + 4).
RECURSIVE LexLessFrom(_, _, _)
LexLessFrom(a, b, i) ==
    IF i > 4 THEN FALSE
    ELSE IF a[i] < b[i] THEN TRUE
    ELSE IF b[i] < a[i] THEN FALSE
    ELSE LexLessFrom(a, b, i + 1)

\* Mutation of lexicographical_compare: the two ranges handed over in the
\* other order.
lexicographical_compare_swapped(a, b) == LexLessFrom(b, a, 1)
lexicographical_compare(a, b) == LexLessFrom(a, b, 1)

\* DashboardClient::lessThanVersion(a, b, c) with e_series_ = e, and parsedRef,
\* parsedC the two uninitialized arrays.  It returns true or throws: "pass" and
\* "UrException" are its two exits (line 220 is reached with ret = true only).
LessThanVersionThrows(ret) == IF ret THEN "pass" ELSE "UrException"
\* std::string ref = e_series_ == true ? a : b;
ref(a, b, e) == IF e THEN a ELSE b
lessThanVersion(a, b, c, e, parsedRef, parsedC) ==
    LET ret == lexicographical_compare(parseSWVersion(parsedRef, ref(a, b, e)),
                                       parseSWVersion(parsedC, c))
    IN  LessThanVersionThrows(ret)

\* ------------------------------------------------- double count (waitForReply)
\* A non-negative double below 32 whose unit in the last place is at least
\* 2^-56 is the integer x * 2^56, kept as three limbs <<hi, mid, lo>> to the
\* base 2^20; a sum is rounded to 53 significant bits, ties to even, as the
\* FPU rounds it.
Limb == 1024 * 1024
\* The smallest hi limb of a value that needs 54 bits: 2^53 / 2^40.
FirstRounded == 8 * 1024
\* double count = 0
DoubleZero == <<0, 0, 0>>
\* 0.000001 * TIME_STEP_SIZE_US as the compiler folds it: 0x1.9999999999999p-4,
\* one unit in the last place below the double nearest to 0.1.
TimeStep == <<6553, 629145, 629145>>
\* A timeout of q quarters of a second as a double (exact; q may be negative).
DoubleOfQuarters(q) == <<q * 16 * 1024, 0, 0>>

RECURSIVE QuantumFrom(_, _, _)
QuantumFrom(hi, bound, q) ==
    IF hi < bound THEN q ELSE QuantumFrom(hi, 2 * bound, 2 * q)
\* The spacing of the doubles around a value with this hi limb, in units of 2^-56.
Quantum(hi) == QuantumFrom(hi, FirstRounded, 1)

Carry(x) ==
    LET lo == x[3] % Limb
        m == x[2] + (x[3] \div Limb)
    IN  <<x[1] + (m \div Limb), m % Limb, lo>>

\* x + y in double arithmetic.
DoubleAdd(x, y) ==
    LET s == Carry(<<x[1] + y[1], x[2] + y[2], x[3] + y[3]>>)
        q == Quantum(s[1])
        r == s[3] % q
        up == 2 * r > q \/ (2 * r = q /\ (s[3] \div q) % 2 = 1)
    IN  Carry(<<s[1], s[2], s[3] - r + (IF up THEN q ELSE 0)>>)

\* x < y on doubles.
DoubleLess(x, y) ==
    \/ x[1] < y[1]
    \/ x[1] = y[1] /\ x[2] < y[2]
    \/ x[1] = y[1] /\ x[2] = y[2] /\ x[3] < y[3]

\* ------------------------------------------------------------------ catalog
\* What a caller can invoke: name is the method, kind the shape of its body,
\* a / b the e-series / CB3 version strings it hands to lessThanVersion,
\* request / expected the command line and the regex of sendRequest,
\* wait / waitExpected those of waitForReply, timeout its timeout (a double),
\* attempts the count of retryCommand, tv_sec a receive timeout it installs.
NoText == <<>>
Operation(name, kind, a, b, request, expected, wait, waitExpected, timeout, attempts, tv_sec) ==
    [a |-> a, b |-> b, name |-> name, kind |-> kind, request |-> request,
     expected |-> expected, wait |-> wait, waitExpected |-> waitExpected,
     timeout |-> timeout, attempts |-> attempts, tv_sec |-> tv_sec]

\* bool waitForReply(command, expected, double timeout = 30.0)
DefaultTimeout == DoubleOfQuarters(30 * 4)
\* const double RETRY_EVERY_SECOND(1.0)
RETRY_EVERY_SECOND == DoubleOfQuarters(4)

\* return sendRequest(request, expected);
Request(name, a, b, request, expected) ==
    Operation(name, "sendRequest", a, b, request, expected, "", NoText, DoubleZero, 0, 0)
\* return sendRequest(request, expected) && waitForReply(wait, waitExpected);
RequestAndWait(name, a, b, request, expected, wait, waitExpected) ==
    Operation(name, "sendRequest&&waitForReply", a, b, request, expected, wait, waitExpected,
              DefaultTimeout, 0, 0)
\* x = sendRequestString(request, expected); return std::regex_match(x, std::regex(expected));
RequestString(name, a, b, request, expected) ==
    Operation(name, "sendRequestString", a, b, request, expected, "", NoText, DoubleZero, 0, 0)
\* x = sendRequestString(request, "(?:).*");
\* return !std::regex_match(x, std::regex("(?:could not understand).*"));
RequestUnderstood(name, a, b, request) ==
    Operation(name, "sendRequestString!", a, b, request, <<STAR>>, "", NoText, DoubleZero, 0, 0)

NotUnderstood == RegexOf(Pattern.could_not_understand) \o <<STAR>>

commandPowerOff ==
    RequestAndWait("commandPowerOff", Version.v5_0_0, Version.v3_0, "power off", RegexOf(Pattern.Powering_off),
                   "robotmode", RegexOf(Pattern.Robotmode_POWER_OFF))
commandPowerOn(timeout) ==
    Operation("commandPowerOn", "retryCommand", Version.v5_0_0, Version.v3_0, "power on",
              RegexOf(Pattern.Powering_on), "robotmode", RegexOf(Pattern.Robotmode_IDLE),
              RETRY_EVERY_SECOND, timeout, 0)
commandBrakeRelease ==
    RequestAndWait("commandBrakeRelease", Version.v5_0_0, Version.v3_0, "brake release",
                   RegexOf(Pattern.Brake_releasing), "robotmode", RegexOf(Pattern.Robotmode_RUNNING))
commandLoadProgram ==
    RequestAndWait("commandLoadProgram", Version.v5_0_0, Version.v1_4, "load demo.urp",
                   RegexOf(Pattern.Loading_program) \o <<STAR>> \o RegexOf(Argument.program) \o <<STAR>>,
                   "programState", RegexOf(Pattern.STOPPED_sp \o Argument.program))
commandLoadInstallation ==
    Request("commandLoadInstallation", Version.v5_0_0, Version.v3_2, "load installation a.installation",
            RegexOf(Pattern.Loading_installation) \o <<STAR>> \o RegexOf(Argument.installation) \o <<STAR>>)
commandPlay ==
    RequestAndWait("commandPlay", Version.v5_0_0, Version.v1_4, "play", RegexOf(Pattern.Starting_program),
                   "programState", RegexOf(Pattern.PLAYING_sp) \o <<STAR>>)
commandPause ==
    RequestAndWait("commandPause", Version.v5_0_0, Version.v1_4, "pause", RegexOf(Pattern.Pausing_program),
                   "programState", RegexOf(Pattern.PAUSED_sp) \o <<STAR>>)
commandStop ==
    RequestAndWait("commandStop", Version.v5_0_0, Version.v1_4, "stop", RegexOf(Pattern.Stopped),
                   "programState", RegexOf(Pattern.STOPPED_sp) \o <<STAR>>)
commandClosePopup ==
    Request("commandClosePopup", Version.v5_0_0, Version.v1_6, "close popup", RegexOf(Pattern.closing_popup))
commandCloseSafetyPopup ==
    Request("commandCloseSafetyPopup", Version.v5_0_0, Version.v3_1, "close safety popup",
            RegexOf(Pattern.closing_safety_popup))
commandRestartSafety ==
    RequestAndWait("commandRestartSafety", Version.v5_1_0, Version.v3_7, "restart safety",
                   RegexOf(Pattern.Restarting_safety), "robotmode", RegexOf(Pattern.Robotmode_POWER_OFF))
commandUnlockProtectiveStop ==
    Request("commandUnlockProtectiveStop", Version.v5_0_0, Version.v3_1, "unlock protective stop",
            RegexOf(Pattern.Protective_stop_releasing))
commandShutdown ==
    Request("commandShutdown", Version.v5_0_0, Version.v1_4, "shutdown", RegexOf(Pattern.Shutting_down))
commandQuit ==
    Request("commandQuit", Version.v5_0_0, Version.v1_4, "quit", RegexOf(Pattern.Disconnected))
commandRunning ==
    Request("commandRunning", Version.v5_0_0, Version.v1_6, "running", RegexOf(Pattern.Program_running_true))
commandIsProgramSaved ==
    Request("commandIsProgramSaved", Version.v5_0_0, Version.v1_8, "isProgramSaved",
            RegexOf(Pattern.true_sp) \o <<STAR>>)
\* response = sendAndReceive("is in remote control\n");
\* return std::regex_match(response, std::regex("true"));
commandIsInRemoteControl ==
    Operation("commandIsInRemoteControl", "sendAndReceive", Version.v5_6_0, OnlyESeries,
              "is in remote control", RegexOf(Pattern.true), "", NoText, DoubleZero, 0, 0)
commandPopup ==
    Request("commandPopup", Version.v5_0_0, Version.v1_6, "popup hi", RegexOf(Pattern.showing_popup))
commandAddToLog ==
    Request("commandAddToLog", Version.v5_0_0, Version.v1_8, "addToLog hi", RegexOf(Pattern.Added_log_message))
\* Not gated: a and b are unused.
commandPolyscopeVersion ==
    Operation("commandPolyscopeVersion", "commandPolyscopeVersion", NoText, NoText,
              "PolyscopeVersion", RegexOf(Pattern.URSoftware) \o <<STAR>>, "", NoText, DoubleZero, 0, 0)
commandGetRobotModel ==
    RequestString("commandGetRobotModel", Version.v5_6_0, Version.v3_12, "get robot model",
                  RegexOf(Pattern.UR) \o <<STAR>>)
commandGetSerialNumber ==
    RequestString("commandGetSerialNumber", Version.v5_6_0, Version.v3_12, "get serial number",
                  RegexOf(Pattern.twenty) \o <<STAR>>)
commandRobotMode ==
    RequestString("commandRobotMode", Version.v5_0_0, Version.v1_6, "robotmode", RegexOf(Pattern.Robotmode) \o <<STAR>>)
commandGetLoadedProgram ==
    RequestString("commandGetLoadedProgram", Version.v5_0_0, Version.v1_6, "get loaded program",
                  RegexOf(Pattern.Loaded_program) \o <<STAR>>)
commandSafetyMode ==
    RequestString("commandSafetyMode", Version.v5_0_0, Version.v3_0, "safetymode",
                  RegexOf(Pattern.Safetymode) \o <<STAR>>)
commandSafetyStatus ==
    RequestString("commandSafetyStatus", Version.v5_4_0, Version.v3_11, "safetystatus",
                  RegexOf(Pattern.Safetystatus) \o <<STAR>>)
commandProgramState ==
    RequestUnderstood("commandProgramState", Version.v5_0_0, Version.v1_8, "programState")
commandGetOperationalMode ==
    RequestUnderstood("commandGetOperationalMode", Version.v5_6_0, OnlyESeries, "get operational mode")
commandSetOperationalMode ==
    Request("commandSetOperationalMode", Version.v5_0_0, OnlyESeries, "set operational mode manual",
            RegexOf(Pattern.Operational_mode) \o <<STAR>> \o RegexOf(Argument.mode) \o <<STAR>>)
commandClearOperationalMode ==
    Request("commandClearOperationalMode", Version.v5_0_0, OnlyESeries, "clear operational mode",
            RegexOf(Pattern.No_longer_controlling) \o <<STAR>>)
commandSetUserRole ==
    Request("commandSetUserRole", OnlyCB3, Version.v1_8, "setUserRole operator",
            RegexOf(Pattern.Setting_user_role) \o <<STAR>>)
commandGetUserRole ==
    RequestUnderstood("commandGetUserRole", OnlyCB3, Version.v1_8, "getUserRole")
\* tv.tv_sec = 180; setReceiveTimeout(tv); ret = sendRequest(..); tv.tv_sec = 1; ..
commandGenerateFlightReport ==
    Operation("commandGenerateFlightReport", "setReceiveTimeout", Version.v5_8_0, Version.v3_13,
              "generate flight report system", RegexOf(Pattern.Flight_Report_generated) \o <<STAR>>,
              "", NoText, DoubleZero, 0, 180)
commandGenerateSupportFile ==
    Operation("commandGenerateSupportFile", "setReceiveTimeout", Version.v5_8_0, Version.v3_13,
              "generate support file /programs", RegexOf(Pattern.Completed_successfully) \o <<STAR>>,
              "", NoText, DoubleZero, 0, 600)
connect ==
    Operation("connect", "connect", NoText, NoText, "PolyscopeVersion",
              RegexOf(Pattern.URSoftware) \o <<STAR>>, "", NoText, DoubleZero, 0, 1)
disconnect ==
    Operation("disconnect", "disconnect", NoText, NoText, "", NoText, "", NoText, DoubleZero, 0, 0)
\* The public waitForReply and retryCommand, called with a status query whose
\* reply the caller awaits.
waitForReply(timeout) ==
    Operation("waitForReply", "waitForReply", NoText, NoText, "", NoText,
              "robotmode", RegexOf(Pattern.Robotmode_IDLE), timeout, 0, 0)
retryCommand(timeout) ==
    Operation("retryCommand", "retryCommand", NoText, NoText, "power on",
              RegexOf(Pattern.Powering_on), "robotmode", RegexOf(Pattern.Robotmode_IDLE),
              RETRY_EVERY_SECOND, timeout, 0)

\* The commands that start with "if (!lessThanVersion(a, b, polyscope_version_)) return false;".
Gated ==
    {commandPowerOff, commandBrakeRelease, commandLoadProgram, commandLoadInstallation,
     commandPlay, commandPause, commandStop, commandClosePopup, commandCloseSafetyPopup,
     commandRestartSafety, commandUnlockProtectiveStop, commandShutdown, commandQuit,
     commandRunning, commandIsProgramSaved, commandIsInRemoteControl, commandPopup,
     commandAddToLog, commandGetRobotModel, commandGetSerialNumber, commandRobotMode,
     commandGetLoadedProgram, commandSafetyMode, commandSafetyStatus, commandProgramState,
     commandGetOperationalMode, commandSetOperationalMode, commandClearOperationalMode,
     commandSetUserRole, commandGetUserRole, commandGenerateFlightReport,
     commandGenerateSupportFile}
    \cup {commandPowerOn(n) : n \in 0..MaxAttempts}
GatedNames == {o.name : o \in Gated}

\* ----------------------------------------------------------- dashboard server
\* A program path of more than read_chars characters, as one terminated line.
LongLine == Pattern.Loaded_program \o [i \in 1..(read_chars + 1) |-> "x"] \o <<"\n">>

\* The lines the server may answer a command line with.
Answers(command) ==
    CASE command = "power off" -> {Line.Powering_off}
      [] command = "power on" -> {Line.Powering_on}
      [] command = "brake release" -> {Line.Brake_releasing}
      [] command = "load demo.urp" -> {Line.Loading_program}
      [] command = "load installation a.installation" -> {Line.Loading_installation}
      [] command = "play" -> {Line.Starting_program}
      [] command = "pause" -> {Line.Pausing_program}
      [] command = "stop" -> {Line.Stopped}
      [] command = "close popup" -> {Line.closing_popup}
      [] command = "close safety popup" -> {Line.closing_safety_popup}
      [] command = "restart safety" -> {Line.Restarting_safety}
      [] command = "unlock protective stop" -> {Line.Protective_stop_releasing}
      [] command = "shutdown" -> {Line.Shutting_down}
      [] command = "quit" -> {Line.Disconnected}
      [] command = "running" -> {Line.running_true, Line.running_false}
      [] command = "isProgramSaved" -> {Line.saved_true, Line.saved_false}
      [] command = "is in remote control" -> {Line.true, Line.false}
      [] command = "popup hi" -> {Line.showing_popup}
      [] command = "addToLog hi" -> {Line.Added_log_message}
      [] command = "get robot model" -> {Line.robot_model}
      [] command = "get serial number" -> {Line.serial_number}
      [] command = "get loaded program" -> {Line.Loaded_program, LongLine}
      [] command = "safetymode" -> {Line.Safetymode}
      [] command = "safetystatus" -> {Line.Safetystatus}
      [] command = "get operational mode" -> {Line.operational_mode}
      [] command = "set operational mode manual" -> {Line.Operational_mode_set}
      [] command = "clear operational mode" -> {Line.No_longer_controlling}
      [] command = "setUserRole operator" -> {Line.Setting_user_role}
      [] command = "getUserRole" -> {Line.user_role}
      [] command = "generate flight report system" -> {Line.Flight_Report}
      [] command = "generate support file /programs" -> {Line.Completed}
      [] OTHER -> {}
\* The status queries are answered with the current status.
Status(command) ==
    CASE command = "robotmode" ->
             {Line.Robotmode_POWER_OFF, Line.Robotmode_IDLE, Line.Robotmode_RUNNING}
      [] command = "programState" -> {Line.STOPPED, Line.PLAYING, Line.PAUSED}
      [] OTHER -> {}
\* The version lines of the controllers: two to four components, a major of
\* one or of two digits.
AllVersions ==
    {Line.version_3_0, Line.version_3_9, Line.version_3_14, Line.version_5_0_0,
     Line.version_5_5_1, Line.version_5_9_4, Line.version_10_1_0}
ServerLines(command, versions) ==
    IF command = "PolyscopeVersion" THEN versions \cup {Line.not_understood}
    ELSE IF Status(command) # {} THEN Status(command)
    ELSE Answers(command) \cup {Line.not_understood}

\* -------------------------------------------------------------------- state
Threads == {1, 2}

VARIABLES
    state_,              \* TCPSocket: "Disconnected" or "Connected"
    recv_timeout_,       \* TCPSocket: the receive timeout in seconds, 0 before any is set
    polyscope_version_,  \* the cached version string
    e_series_,           \* the cached variant
    write_mutex_,        \* the thread holding write_mutex_, or 0
    toServer,            \* the command lines written and not yet answered
    toClient,            \* the lines the server has sent and the client has not read
    op,                  \* per thread: the operation it is in
    pc,                  \* per thread: where in the operation it is
    cur,                 \* per thread: the exchange it is in or was in last: "greeting",
                         \* "request" (sendRequest and its like) or "wait" (waitForReply)
    count,               \* per thread: waitForReply's count
    retry,               \* per thread: retryCommand's count
    response,            \* per thread: the response of its last exchange
    ret,                 \* per thread: ret / ret_val, and at "done" how the operation ended
    writes,              \* per thread: the command lines the operation has written
    reads,               \* per thread: the lines the operation has read
    npoll,               \* per thread: the queries of the running waitForReply
    pending,             \* per thread: the command line its exchange wrote
    got,                 \* per thread: the command line its last reply answers
    what                 \* per thread: the message of the exception it has thrown

shared == <<state_, recv_timeout_, polyscope_version_, e_series_, write_mutex_>>
stream == <<toServer, toClient>>
locals ==
    <<op, pc, cur, count, retry, response, ret, writes, reads, npoll, pending, got, what>>
vars == <<state_, recv_timeout_, polyscope_version_, e_series_, write_mutex_, toServer,
          toClient, op, pc, cur, count, retry, response, ret, writes, reads, npoll, pending,
          got, what>>

NoOperation == Operation("", "", NoText, NoText, "", NoText, "", NoText, DoubleZero, 0, 0)
NoCommand == [command |-> "", from |-> 0]
Greeting == [command |-> "greeting", from |-> 0]

\* After construction: no connection, no receive timeout, an empty version
\* string and a bool e_series_ that nothing has initialized.
Init ==
    /\ state_ = "Disconnected"
    /\ recv_timeout_ = 0
    /\ polyscope_version_ = NoText
    /\ e_series_ \in BOOLEAN
    /\ write_mutex_ = 0
    /\ toServer = <<>>
    /\ toClient = <<>>
    /\ op = [t \in Threads |-> NoOperation]
    /\ pc = [t \in Threads |-> "idle"]
    /\ cur = [t \in Threads |-> ""]
    /\ count = [t \in Threads |-> DoubleZero]
    /\ retry = [t \in Threads |-> 0]
    /\ response = [t \in Threads |-> NoText]
    /\ ret = [t \in Threads |-> ""]
    /\ writes = [t \in Threads |-> 0]
    /\ reads = [t \in Threads |-> 0]
    /\ npoll = [t \in Threads |-> 0]
    /\ pending = [t \in Threads |-> NoCommand]
    /\ got = [t \in Threads |-> NoCommand]
    /\ what = [t \in Threads |-> NoText]

\* ------------------------------------------------------------------ actions
Bool(b) == IF b THEN "true" ELSE "false"

\* An operation ends: with its return value, or with the exception it lets out.
Ends(t, how) ==
    /\ pc' = [pc EXCEPT ![t] = "done"]
    /\ ret' = [ret EXCEPT ![t] = how]

\* An operation ends with the exception how, whose message is made of parts.
Throws(t, how, parts) ==
    /\ Ends(t, how)
    /\ what' = [what EXCEPT ![t] = parts]

\* A caller invokes an operation of the client.
Call(t, o) ==
    /\ pc[t] = "idle"
    /\ op' = [op EXCEPT ![t] = o]
    /\ pc' = [pc EXCEPT ![t] =
                 IF o.name \in GatedNames \/ o.kind = "lessThanVersion" THEN "gate"
                 ELSE IF o.kind = "waitForReply" THEN "wait"
                 ELSE IF o.kind \in {"connect", "disconnect"} THEN o.kind
                 ELSE "request"]
    /\ ret' = [ret EXCEPT ![t] = IF o.kind = "connect" THEN "false" ELSE ""]
    /\ UNCHANGED <<shared, stream, cur, count, retry, response, writes, reads, npoll,
                   pending, got, what>>

\* if (!lessThanVersion(a, b, polyscope_version_)) return false;
Gate(t) ==
    /\ pc[t] = "gate"
    /\ \E less \in {lessThanVersion(op[t].a, op[t].b, polyscope_version_, e_series_,
                                     parsedRef, parsedC) :
                         parsedRef \in IndeterminateArrays, parsedC \in IndeterminateArrays} :
              IF less = "pass"
              THEN IF op[t].kind = "lessThanVersion"
                   THEN Ends(t, "true") /\ what' = what
                   ELSE /\ pc' = [pc EXCEPT ![t] = IF op[t].kind = "setReceiveTimeout"
                                                     THEN "setReceiveTimeout" ELSE "request"]
                        /\ UNCHANGED <<ret, what>>
              ELSE Throws(t, less, <<"Polyscope software version required is: ",
                                     ref(op[t].a, op[t].b, e_series_),
                                     ", but actual version is: ", polyscope_version_>>)
    /\ UNCHANGED <<shared, stream, op, cur, count, retry, response, writes, reads, npoll,
                   pending, got>>

\* TCPSocket::setReceiveTimeout(tv) in connect, commandGenerateFlightReport and
\* commandGenerateSupportFile, before the request.
SetReceiveTimeout(t) ==
    /\ pc[t] = "setReceiveTimeout"
    /\ recv_timeout_' = op[t].tv_sec
    /\ pc' = [pc EXCEPT ![t] = "request"]
    /\ UNCHANGED <<state_, polyscope_version_, e_series_, write_mutex_, stream, op, cur,
                   count, retry, response, ret, writes, reads, npoll, pending, got, what>>

\* Mutation of lock_guard: sendAndReceive without the lock.
lock_guard_absent(t) == TRUE
\* std::lock_guard<std::mutex> lock(write_mutex_) lets the thread on.
lock_guard(t) == write_mutex_ = 0

\* TCPSocket::write succeeds on a connected socket.
CanWrite == state_ = "Connected"

\* Mutation of SendFailed: the exception leaves sendAndReceive with the mutex
\* still held.
SendFailed_keeps_lock(t) ==
    /\ Throws(t, "UrException", <<"Failed to send request to dashboard server. ",
                                  "Are you connected to the Dashboard Server?">>)
    /\ write_mutex_' = t
    /\ UNCHANGED <<toServer, pending, writes, npoll>>
\* sendAndReceive: "if (send(command)) .. else throw UrException(..)"; nothing
\* was written, and the guard lets the mutex go as the exception leaves.
SendFailed(t) ==
    /\ Throws(t, "UrException", <<"Failed to send request to dashboard server. ",
                                  "Are you connected to the Dashboard Server?">>)
    /\ UNCHANGED <<write_mutex_, toServer, pending, writes, npoll>>

\* sendAndReceive up to the read: take write_mutex_ and send the command line;
\* a failed send throws and the guard lets the mutex go.  In waitForReply this
\* is the body of "while (count < timeout)"; capped, a waitForReply sends no
\* more than MaxMismatch + 1 queries.
Send(t, capped) ==
    /\ pc[t] \in {"request", "wait"}
    /\ pc[t] = "wait" => DoubleLess(count[t], op[t].timeout)
    /\ (capped /\ pc[t] = "wait") => npoll[t] <= MaxMismatch
    /\ lock_guard(t)
    /\ IF CanWrite
       THEN LET line == [command |-> IF pc[t] = "wait" THEN op[t].wait ELSE op[t].request,
                         from |-> t]
            IN  /\ write_mutex_' = t
                /\ toServer' = Append(toServer, line)
                /\ pending' = [pending EXCEPT ![t] = line]
                /\ writes' = [writes EXCEPT ![t] = @ + 1]
                /\ npoll' = [npoll EXCEPT ![t] = IF pc[t] = "wait" THEN @ + 1 ELSE @]
                /\ pc' = [pc EXCEPT ![t] = "read"]
                /\ UNCHANGED <<ret, what>>
       ELSE SendFailed(t)
    /\ cur' = [cur EXCEPT ![t] = pc[t]]
    /\ got' = [got EXCEPT ![t] = NoCommand]
    /\ UNCHANGED <<state_, recv_timeout_, polyscope_version_, e_series_, toClient, op, count,
                   retry, response, reads>>

\* Mutation of AfterWait: the loop of waitForReply without its "return true".
AfterWait_polls_on(o, r, n, rv) == [pc |-> "sleep", ret |-> rv, retry |-> n]
\* waitForReply after sendAndReceive: "return true" on a response that matches
\* expected, else on to usleep.
AfterWait(o, r, n, rv) ==
    IF regex_match(r, o.waitExpected) THEN [pc |-> "done", ret |-> "true", retry |-> n]
    ELSE [pc |-> "sleep", ret |-> rv, retry |-> n]

\* Mutation of Mismatch: retryCommand takes a request that was not accepted
\* as one more attempt and sends it again.
Mismatch_retries(o, r, n) ==
    IF o.kind = "retryCommand" THEN [pc |-> "request", ret |-> "", retry |-> n + 1]
    ELSE [pc |-> "done", ret |-> "UrException", retry |-> n,
          what |-> <<"Expected: ", o.expected, ", but received: ", r>>]
\* Mutation of Mismatch: a command of the form sendRequest(..) &&
\* waitForReply(..) goes on to its status query whatever the request's reply.
Mismatch_polls_anyway(o, r, n) ==
    IF o.kind = "sendRequest&&waitForReply" THEN [pc |-> "wait", ret |-> "", retry |-> n]
    ELSE [pc |-> "done", ret |-> "UrException", retry |-> n,
          what |-> <<"Expected: ", o.expected, ", but received: ", r>>]
\* Mutation of Mismatch: sendRequest's "return ret" without the throw.
Mismatch_returns_false(o, r, n) == [pc |-> "done", ret |-> "false", retry |-> n]
\* sendRequest and sendRequestString on a response that does not match
\* expected: throw UrException("Expected: " + expected + ", but received: " +
\* response), which no caller in the client catches.
Mismatch(o, r, n) ==
    [pc |-> "done", ret |-> "UrException", retry |-> n,
     what |-> <<"Expected: ", o.expected, ", but received: ", r>>]

\* What follows the reply r of the exchange the thread is in: where it goes
\* on, what it returns or throws, and retryCommand's count.
Continue(o, which, r, n, rv) ==
    IF which = "greeting" THEN [pc |-> "setReceiveTimeout", ret |-> rv, retry |-> n]
    ELSE IF which = "wait" THEN AfterWait(o, r, n, rv)
    ELSE IF o.kind = "sendAndReceive"
    THEN [pc |-> "done", ret |-> Bool(regex_match(r, o.expected)), retry |-> n]
    ELSE IF ~regex_match(r, o.expected) THEN Mismatch(o, r, n)
    ELSE CASE o.kind = "sendRequest" -> [pc |-> "done", ret |-> "true", retry |-> n]
           [] o.kind = "sendRequest&&waitForReply" -> [pc |-> "wait", ret |-> rv, retry |-> n]
           [] o.kind = "retryCommand" -> [pc |-> "wait", ret |-> rv, retry |-> n + 1]
           [] o.kind = "sendRequestString" ->
                  [pc |-> "done", ret |-> Bool(regex_match(r, o.expected)), retry |-> n]
           [] o.kind = "sendRequestString!" ->
                  [pc |-> "done", ret |-> Bool(~regex_match(r, NotUnderstood)), retry |-> n]
           [] o.kind = "setReceiveTimeout" -> [pc |-> "restore", ret |-> "true", retry |-> n]
           [] o.kind \in {"commandPolyscopeVersion", "connect"} ->
                  [pc |-> "record", ret |-> rv, retry |-> n]

\* read() returns a line; sendAndReceive lets the mutex go and trims the line;
\* the caller looks at the response.  The greeting is read without the mutex.
Read(t) ==
    /\ pc[t] = "read"
    /\ toClient # <<>>
    /\ read(Head(toClient).line).ok
    /\ \E r \in {rtrim(read(Head(toClient).line).result)} :
       \E next \in {Continue(op[t], cur[t], r, retry[t], ret[t])} :
           /\ response' = [response EXCEPT ![t] = r]
           /\ pc' = [pc EXCEPT ![t] = next.pc]
           /\ ret' = [ret EXCEPT ![t] = next.ret]
           /\ retry' = [retry EXCEPT ![t] = next.retry]
           /\ what' = [what EXCEPT ![t] = IF "what" \in DOMAIN next THEN next.what ELSE @]
           /\ count' = [count EXCEPT ![t] = IF next.pc = "wait" THEN DoubleZero ELSE @]
           /\ npoll' = [npoll EXCEPT ![t] = IF next.pc = "wait" THEN 0 ELSE @]
    /\ got' = [got EXCEPT ![t] = Head(toClient).re]
    /\ toClient' = Tail(toClient)
    /\ reads' = [reads EXCEPT ![t] = @ + 1]
    /\ write_mutex_' = IF write_mutex_ = t THEN 0 ELSE write_mutex_
    /\ UNCHANGED <<state_, recv_timeout_, polyscope_version_, e_series_, toServer, op, cur,
                   writes, pending>>

\* TCPSocket::close(): the connection and what was in flight on it are gone.
Close ==
    /\ state_' = "Disconnected"
    /\ toServer' = <<>>
    /\ toClient' = <<>>

\* Mutation of ReadFailed: read() throws without disconnecting.
ReadFailed_keeps_connection == UNCHANGED <<state_, toServer, toClient>>
\* What read() does when TCPSocket::read fails: disconnect().
ReadFailed == Close

\* TCPSocket::read gets no byte within the receive timeout: read() disconnects
\* and throws TimeoutException, which leaves sendAndReceive through its guard.
ReadTimeout(t) ==
    /\ pc[t] = "read"
    /\ IF toClient = <<>> THEN TRUE ELSE ~read(Head(toClient).line).ok
    /\ ReadFailed
    /\ Throws(t, "TimeoutException",
              <<"Did not receive answer from dashboard server in time. ",
                "Disconnecting from dashboard server.">>)
    /\ write_mutex_' = IF write_mutex_ = t THEN 0 ELSE write_mutex_
    /\ UNCHANGED <<recv_timeout_, polyscope_version_, e_series_, op, cur, count, retry,
                   response, writes, reads, npoll, pending, got>>

\* waitForReply: usleep(TIME_STEP_SIZE_US); count = count + (0.000001 * TIME_STEP_SIZE_US);
Sleep_keeps_count(t) ==
    /\ pc[t] = "sleep"
    /\ pc' = [pc EXCEPT ![t] = "wait"]
    /\ UNCHANGED <<shared, stream, op, cur, retry, response, ret, writes, reads, npoll,
                   pending, got, what, count>>

Sleep(t) ==
    /\ pc[t] = "sleep"
    /\ count' = [count EXCEPT ![t] = DoubleAdd(@, TimeStep)]
    /\ pc' = [pc EXCEPT ![t] = "wait"]
    /\ UNCHANGED <<shared, stream, op, cur, retry, response, ret, writes, reads, npoll,
                   pending, got, what>>

\* Mutation of WaitExpired: a poll that runs out closes the connection.
WaitExpired_disconnects(t) ==
    /\ pc[t] = "wait"
    /\ ~DoubleLess(count[t], op[t].timeout)
    /\ IF op[t].kind = "retryCommand" /\ retry[t] < op[t].attempts
       THEN /\ pc' = [pc EXCEPT ![t] = "request"]
            /\ ret' = ret
       ELSE Ends(t, "false")
    /\ Close
    /\ UNCHANGED <<recv_timeout_, polyscope_version_, e_series_, write_mutex_, op, cur, count,
                   retry, response, writes, reads, npoll, pending, got, what>>
\* waitForReply leaves "while (count < timeout)" and returns false; in
\* retryCommand "while (count < timeout)" of the do loop decides what follows.
WaitExpired(t) ==
    /\ pc[t] = "wait"
    /\ ~DoubleLess(count[t], op[t].timeout)
    /\ IF op[t].kind = "retryCommand" /\ retry[t] < op[t].attempts
       THEN /\ pc' = [pc EXCEPT ![t] = "request"]
            /\ ret' = ret
       ELSE Ends(t, "false")
    /\ UNCHANGED <<shared, stream, op, cur, count, retry, response, writes, reads, npoll,
                   pending, got, what>>

\* commandGenerateFlightReport / commandGenerateSupportFile after sendRequest
\* has returned: tv.tv_sec = 1; setReceiveTimeout(tv); return ret;
RestoreTimeout(t) ==
    /\ pc[t] = "restore"
    /\ recv_timeout_' = 1
    /\ Ends(t, ret[t])
    /\ UNCHANGED <<state_, polyscope_version_, e_series_, write_mutex_, stream, op, cur,
                   count, retry, response, writes, reads, npoll, pending, got, what>>

\* commandPolyscopeVersion: polyscope_version_ = polyscope_version.substr(..).
RecordVersion(t) ==
    /\ pc[t] = "record"
    /\ LET at == find(response[t], <<" ">>)
       IN  polyscope_version_' =
               substr(response[t], at + 1, find(response[t], <<" ", "(">>) - at - 1)
    /\ pc' = [pc EXCEPT ![t] = "stoi"]
    /\ UNCHANGED <<state_, recv_timeout_, e_series_, write_mutex_, stream, op, cur, count,
                   retry, response, ret, writes, reads, npoll, pending, got, what>>

\* stoi of one character: its digit, or std::invalid_argument.
stoi(str) == IF str # NoText /\ str[1] \in Digits THEN DigitValue(str[1]) ELSE -1

\* e_series_ = stoi(polyscope_version_.substr(0, 1)) >= 5;
ESeriesOf(version) == stoi(substr(version, 0, 1)) >= 5

\* commandPolyscopeVersion: e_series_ = ..; return regex_match(..); and, in
\* connect, return ret_val.
RecordVariant(t) ==
    /\ pc[t] = "stoi"
    /\ IF stoi(substr(polyscope_version_, 0, 1)) < 0
       THEN /\ Throws(t, "invalid_argument", <<"stoi">>)
            /\ e_series_' = e_series_
       ELSE /\ e_series_' = ESeriesOf(polyscope_version_)
            /\ Ends(t, IF op[t].kind = "connect" THEN ret[t]
                       ELSE Bool(regex_match(response[t], op[t].expected)))
            /\ what' = what
    /\ UNCHANGED <<state_, recv_timeout_, polyscope_version_, write_mutex_, stream, op, cur,
                   count, retry, response, writes, reads, npoll, pending, got>>

\* Mutation of Connect: connect without "URCL_LOG_INFO(read().c_str())", the
\* greeting left unread on the connection.
Connect_skips_greeting(t) ==
    /\ pc[t] = "connect"
    /\ IF state_ = "Connected"
       THEN /\ Ends(t, "false")
            /\ UNCHANGED <<state_, stream>>
       ELSE \/ /\ state_' = "Connected"
               /\ toServer' = <<>>
               /\ toClient' \in {<<>>, <<[line |-> Line.greeting, re |-> Greeting]>>}
               /\ pc' = [pc EXCEPT ![t] = "setReceiveTimeout"]
               /\ ret' = [ret EXCEPT ![t] = "true"]
            \/ /\ pc' = [pc EXCEPT ![t] = "setReceiveTimeout"]
               /\ UNCHANGED <<state_, stream, ret>>
    /\ UNCHANGED <<recv_timeout_, polyscope_version_, e_series_, write_mutex_, op, cur, count,
                   retry, response, writes, reads, npoll, pending, got, what>>
\* connect: refuse on a connected socket; else TCPSocket::setup, which fails or
\* connects, whereupon the server greets (or stays silent) and read() is
\* called for the greeting.
Connect(t) ==
    /\ pc[t] = "connect"
    /\ IF state_ = "Connected"
       THEN /\ Ends(t, "false")
            /\ UNCHANGED <<state_, stream, cur>>
       ELSE \/ /\ state_' = "Connected"
               /\ toServer' = <<>>
               /\ toClient' \in {<<>>, <<[line |-> Line.greeting, re |-> Greeting]>>}
               /\ pc' = [pc EXCEPT ![t] = "read"]
               /\ cur' = [cur EXCEPT ![t] = "greeting"]
               /\ ret' = [ret EXCEPT ![t] = "true"]
            \/ /\ pc' = [pc EXCEPT ![t] = "setReceiveTimeout"]
               /\ UNCHANGED <<state_, stream, cur, ret>>
    /\ UNCHANGED <<recv_timeout_, polyscope_version_, e_series_, write_mutex_, op, count,
                   retry, response, writes, reads, npoll, pending, got, what>>

\* disconnect: TCPSocket::close().
Disconnect(t) ==
    /\ pc[t] = "disconnect"
    /\ Close
    /\ Ends(t, "void")
    /\ UNCHANGED <<recv_timeout_, polyscope_version_, e_series_, write_mutex_, op, cur, count,
                   retry, response, writes, reads, npoll, pending, got, what>>

\* The caller has the outcome; the thread is free for its next call.
Return(t) ==
    /\ pc[t] = "done"
    /\ pc' = [pc EXCEPT ![t] = "idle"]
    /\ op' = [op EXCEPT ![t] = NoOperation]
    /\ cur' = [cur EXCEPT ![t] = ""]
    /\ count' = [count EXCEPT ![t] = DoubleZero]
    /\ retry' = [retry EXCEPT ![t] = 0]
    /\ response' = [response EXCEPT ![t] = NoText]
    /\ ret' = [ret EXCEPT ![t] = ""]
    /\ writes' = [writes EXCEPT ![t] = 0]
    /\ reads' = [reads EXCEPT ![t] = 0]
    /\ npoll' = [npoll EXCEPT ![t] = 0]
    /\ pending' = [pending EXCEPT ![t] = NoCommand]
    /\ got' = [got EXCEPT ![t] = NoCommand]
    /\ what' = [what EXCEPT ![t] = NoText]
    /\ UNCHANGED <<shared, stream>>

\* The server answers the oldest command line.
Server(versions) ==
    /\ toServer # <<>>
    /\ \E line \in ServerLines(Head(toServer).command, versions) :
          toClient' = Append(toClient, [line |-> line, re |-> Head(toServer)])
    /\ toServer' = Tail(toServer)
    /\ UNCHANGED <<shared, locals>>

\* lessThanVersion(a, b, polyscope_version_) called for its own sake.
lessThanVersionOf(a, b) ==
    Operation("lessThanVersion", "lessThanVersion", a, b, "", NoText, "", NoText,
              DoubleZero, 0, 0)

\* ----------------------------------------------------------- specifications
Step(t, capped) ==
    \/ Gate(t)
    \/ SetReceiveTimeout(t)
    \/ Send(t, capped)
    \/ Read(t)
    \/ ReadTimeout(t)
    \/ Sleep(t)
    \/ WaitExpired(t)
    \/ RestoreTimeout(t)
    \/ RecordVersion(t)
    \/ RecordVariant(t)
    \/ Connect(t)
    \/ Disconnect(t)
    \/ Return(t)

\* Two threads share one client and call a part of the catalog.
SharedOperations ==
    {connect, disconnect, commandPlay, commandGenerateFlightReport,
     waitForReply(DoubleZero)}
SharedVersions == {Line.version_5_9_4}

Next ==
    \/ \E t \in Threads : \E o \in SharedOperations : Call(t, o)
    \/ \E t \in Threads : Step(t, TRUE)
    \/ Server(SharedVersions)

Spec == Init /\ [][Next]_vars

\* The same two threads where the callers keep the precondition of an
\* exchange: connect and disconnect are called while no other thread is in an
\* operation, and no command is called while a thread is in one of them.
Managing(t) == op[t].kind \in {"connect", "disconnect"}
CallOrderly(t, o) ==
    /\ IF o.kind \in {"connect", "disconnect"}
       THEN \A u \in Threads \ {t} : pc[u] = "idle"
       ELSE \A u \in Threads : ~Managing(u)
    /\ Call(t, o)

NextOrderly ==
    \/ \E t \in Threads : \E o \in SharedOperations : CallOrderly(t, o)
    \/ \E t \in Threads : Step(t, TRUE)
    \/ Server(SharedVersions)

SpecOrderly == Init /\ [][NextOrderly]_vars

\* One thread calls the whole catalog, against every version line.
Caller == CHOOSE t \in Threads : \A u \in Threads : t <= u
Catalog ==
    Gated \cup {connect, disconnect, commandPolyscopeVersion, waitForReply(DoubleZero)}

NextCatalog ==
    \/ \E o \in Catalog : Call(Caller, o)
    \/ Step(Caller, TRUE)
    \/ Server(AllVersions)

SpecCatalog == Init /\ [][NextCatalog]_vars

\* One thread calls lessThanVersion with every pair of a bounded set of
\* version strings, on a client whose last commandPolyscopeVersion has
\* recorded one of them.
Compared ==
    {<<"3", ".", "9">>, <<"3", ".", "1", "0">>, <<"3", ".", "9", ".", "1">>,
     <<"5", ".", "1", ".", "0">>}

InitVersions ==
    /\ state_ = "Connected"
    /\ recv_timeout_ = 1
    /\ polyscope_version_ \in Compared
    /\ e_series_ = ESeriesOf(polyscope_version_)
    /\ write_mutex_ = 0
    /\ toServer = <<>>
    /\ toClient = <<>>
    /\ op = [t \in Threads |-> NoOperation]
    /\ pc = [t \in Threads |-> "idle"]
    /\ cur = [t \in Threads |-> ""]
    /\ count = [t \in Threads |-> DoubleZero]
    /\ retry = [t \in Threads |-> 0]
    /\ response = [t \in Threads |-> NoText]
    /\ ret = [t \in Threads |-> ""]
    /\ writes = [t \in Threads |-> 0]
    /\ reads = [t \in Threads |-> 0]
    /\ npoll = [t \in Threads |-> 0]
    /\ pending = [t \in Threads |-> NoCommand]
    /\ got = [t \in Threads |-> NoCommand]
    /\ what = [t \in Threads |-> NoText]

NextVersions ==
    \/ \E a \in Compared : \E b \in Compared : Call(Caller, lessThanVersionOf(a, b))
    \/ Gate(Caller)
    \/ Return(Caller)

SpecVersions == InitVersions /\ [][NextVersions]_vars

\* One thread calls commandRobotMode on a connected client of a 5.9.4
\* controller whose server answers with any short line of letters and
\* whitespace, or with "Robotmode: IDLE\r\n".
TrimAlphabet == {"a", " ", "\r", "\t"}
TrimLines ==
    {l \o <<"\n">> : l \in UNION {[1..n -> TrimAlphabet] : n \in 0..MaxTrimLen}}
        \cup {Line.Robotmode_IDLE}

InitTrim ==
    /\ state_ = "Connected"
    /\ recv_timeout_ = 1
    /\ polyscope_version_ = <<"5", ".", "9", ".", "4">>
    /\ e_series_ = ESeriesOf(polyscope_version_)
    /\ write_mutex_ = 0
    /\ toServer = <<>>
    /\ toClient = <<>>
    /\ op = [t \in Threads |-> NoOperation]
    /\ pc = [t \in Threads |-> "idle"]
    /\ cur = [t \in Threads |-> ""]
    /\ count = [t \in Threads |-> DoubleZero]
    /\ retry = [t \in Threads |-> 0]
    /\ response = [t \in Threads |-> NoText]
    /\ ret = [t \in Threads |-> ""]
    /\ writes = [t \in Threads |-> 0]
    /\ reads = [t \in Threads |-> 0]
    /\ npoll = [t \in Threads |-> 0]
    /\ pending = [t \in Threads |-> NoCommand]
    /\ got = [t \in Threads |-> NoCommand]
    /\ what = [t \in Threads |-> NoText]

\* The server answers the oldest command line with one of lines.
ServerWith(lines) ==
    /\ toServer # <<>>
    /\ \E line \in lines :
          toClient' = Append(toClient, [line |-> line, re |-> Head(toServer)])
    /\ toServer' = Tail(toServer)
    /\ UNCHANGED <<shared, locals>>

NextTrim ==
    \/ Call(Caller, commandRobotMode)
    \/ Gate(Caller)
    \/ Send(Caller, FALSE)
    \/ Read(Caller)
    \/ ReadTimeout(Caller)
    \/ Return(Caller)
    \/ ServerWith(TrimLines)

SpecTrim == InitTrim /\ [][NextTrim]_vars

\* read() while the bytes that have come hold no '\n': each TCPSocket::read
\* returns one of them, result grows, and the loop goes on with the mutex held.
ReadBytes(t) ==
    /\ pc[t] = "read"
    /\ toClient # <<>>
    /\ IF toClient = <<>> THEN FALSE ELSE ~read(Head(toClient).line).ok
    /\ got' = [got EXCEPT ![t] = Head(toClient).re]
    /\ toClient' = Tail(toClient)
    /\ UNCHANGED <<shared, toServer, op, pc, cur, count, retry, response, ret, writes, reads,
                   npoll, pending, what>>

\* The server answers the oldest command line with bytes and no newline, and
\* goes on sending such bytes to the thread that is reading them.
Stream ==
    /\ toClient = <<>>
    /\ \/ /\ toServer # <<>>
          /\ toClient' = <<[line |-> <<"x">>, re |-> Head(toServer)]>>
          /\ toServer' = Tail(toServer)
       \/ /\ \E t \in Threads :
                 /\ pc[t] = "read"
                 /\ got[t] # NoCommand
                 /\ toClient' = <<[line |-> <<"x">>, re |-> got[t]]>>
          /\ toServer' = toServer
    /\ UNCHANGED <<shared, locals>>

\* Two threads call waitForReply("robotmode", "Robotmode: IDLE", 0.25) on a
\* connected client whose server answers with lines or with bytes that never
\* end in a newline.
\* A thread that can take a step takes one in the end: a blocked
\* TCPSocket::read ends by a byte that has come or by the receive timeout.
Runs(t) ==
    \/ Send(t, FALSE)
    \/ Read(t)
    \/ ReadBytes(t)
    \/ ReadTimeout(t)
    \/ Sleep(t)
    \/ WaitExpired(t)
    \/ Return(t)

NextStream ==
    \/ \E t \in Threads : Call(t, waitForReply(DoubleOfQuarters(1)))
    \/ \E t \in Threads : Runs(t)
    \/ Server(SharedVersions)
    \/ Stream

SpecStream == InitTrim /\ [][NextStream]_vars /\ \A t \in Threads : WF_vars(Runs(t))

\* One thread calls waitForReply, retryCommand and commandPowerOn with its own
\* timeouts, against a server whose status never has to match; no poll loop
\* is capped.
Timeouts == {DoubleOfQuarters(q) : q \in (0 - 1)..MaxTimeoutQ}
PollOperations ==
    {connect, disconnect} \cup {waitForReply(timeout) : timeout \in Timeouts}
    \cup {retryCommand(n) : n \in 0..MaxAttempts}
    \cup {commandPowerOn(n) : n \in 0..MaxAttempts}

NextPoll ==
    \/ \E o \in PollOperations : Call(Caller, o)
    \/ Gate(Caller)
    \/ SetReceiveTimeout(Caller)
    \/ Send(Caller, FALSE)
    \/ Read(Caller)
    \/ ReadTimeout(Caller)
    \/ Sleep(Caller)
    \/ WaitExpired(Caller)
    \/ RecordVersion(Caller)
    \/ RecordVariant(Caller)
    \/ Connect(Caller)
    \/ Disconnect(Caller)
    \/ Return(Caller)
    \/ Server({Line.version_5_9_4})

SpecPoll == Init /\ [][NextPoll]_vars

\* One thread calls the public waitForReply and retryCommand, with every
\* timeout and every attempt budget of the bounds, on a connection it opens
\* and closes.  LoopRuns are the steps of the calling thread itself: a call
\* that has started runs on, every step is a statement of the running call
\* and the blocking receive inside it ends by its timeout when no line
\* arrives, so the caller is weakly fair.  The start of a call and the
\* robot's answers are not.
LoopOperations ==
    {connect, disconnect} \cup {waitForReply(timeout) : timeout \in Timeouts}
    \cup {retryCommand(n) : n \in 0..MaxAttempts}

LoopRuns ==
    \/ SetReceiveTimeout(Caller)
    \/ Send(Caller, FALSE)
    \/ Read(Caller)
    \/ ReadTimeout(Caller)
    \/ Sleep(Caller)
    \/ WaitExpired(Caller)
    \/ RecordVersion(Caller)
    \/ RecordVariant(Caller)
    \/ Connect(Caller)
    \/ Disconnect(Caller)
    \/ Return(Caller)

NextLoops ==
    \/ \E o \in LoopOperations : Call(Caller, o)
    \/ LoopRuns
    \/ Server({Line.version_5_9_4})

SpecLoops == Init /\ [][NextLoops]_vars /\ WF_vars(LoopRuns)

\* -------------------------------------------------------------- properties
\* The thread is inside sendAndReceive: it has written its command line and
\* has not yet got its reply line.
Exchanging(t) == pc[t] = "read" /\ cur[t] \in {"request", "wait"}

C2_TimeoutDisconnects ==
    [][\A t \in Threads :
           (ret'[t] = "TimeoutException" /\ ret[t] # "TimeoutException")
               => state_' = "Disconnected"]_vars

\* C2 witness: an exchange has ended with TimeoutException and the connection
\* is closed.
C2_Witness ==
    \E t \in Threads :
        /\ pc[t] = "done"
        /\ ret[t] = "TimeoutException"
        /\ cur[t] \in {"request", "wait"}
        /\ writes[t] > 0
        /\ state_ = "Disconnected"

\* C3: when commandGenerateFlightReport or commandGenerateSupportFile has
\* installed its receive timeout (on a client that has recorded a version)
\* and then ends, however it ends, the receive timeout is 1 second again.
C3_TimeoutRestoredOnEveryExit ==
    \A t \in Threads :
        (/\ pc[t] = "done"
         /\ op[t].kind = "setReceiveTimeout"
         /\ cur[t] = "request"
         /\ polyscope_version_ # NoText)
            => recv_timeout_ = 1

\* The version string c as (major, minor, patch, build), a component that is
\* not there being 0.
Components(c) == parseSWVersion(<<0, 0, 0, 0>>, c)
\* The version string a gated command of thread t hands to the gate for the
\* cached variant.
Threshold(t) == ref(op[t].a, op[t].b, e_series_)
Sentinels == {OnlyESeries, OnlyCB3}
\* The thread is in a gated command and a version has been recorded.
GatedWithVersion(t) == op[t].name \in GatedNames /\ polyscope_version_ # NoText
\* The gate of the thread's command has stopped it / has let it pass.
GateRejected(t) == op[t].name \in GatedNames /\ pc[t] = "done" /\ cur[t] = ""
GatePassed(t) ==
    /\ op[t].name \in GatedNames
    /\ pc[t] # "gate"
    /\ pc[t] = "done" => cur[t] # ""
\* x comes before y in the lexicographic order of 4-tuples.
TupleLess(x, y) == \E i \in 1..4 : x[i] < y[i] /\ \A j \in 1..(i - 1) : x[j] = y[j]
\* The cached version is below the threshold.
Below(t) == TupleLess(Components(polyscope_version_), Components(Threshold(t)))

\* C4: a gated command (commandIsInRemoteControl included) called with a cached
\* version below its threshold for the cached variant writes nothing to and
\* reads nothing from the transport, at any point of the operation.
C4_GateBeforeIO ==
    \A t \in Threads :
        (GatedWithVersion(t) /\ Threshold(t) \notin Sentinels /\ Below(t))
            => writes[t] = 0 /\ reads[t] = 0

\* C4 witness: commandIsInRemoteControl has ended on a controller at 5.5.1.10,
\* below its threshold 5.6.0, and has written and read nothing.
C4_Witness ==
    \E t \in Threads :
        /\ op[t] = commandIsInRemoteControl
        /\ pc[t] = "done"
        /\ e_series_
        /\ Components(polyscope_version_) = <<5, 5, 1, 10>>
        /\ writes[t] = 0
        /\ reads[t] = 0

\* C5: a gated command that its gate stops returns false.
C5_RejectionReturnsFalse ==
    \A t \in Threads :
        (GatedWithVersion(t) /\ GateRejected(t)) => ret[t] = "false"

\* C6: the gate lets a command pass if and only if the cached version is
\* greater than or equal to the threshold for the cached variant, compared as
\* 4-tuples; a version equal to the threshold passes.
C6_GatePassesIffAtLeast ==
    \A t \in Threads :
        (GatedWithVersion(t) /\ Threshold(t) \notin Sentinels) =>
            /\ GateRejected(t) => Below(t)
            /\ GatePassed(t) => ~Below(t)

\* C7: once commandPolyscopeVersion has recorded a version, e_series_ holds
\* if and only if the major component of the recorded version is >= 5.
C7_VariantFromMajor ==
    \A t \in Threads :
        (/\ op[t].kind \in {"commandPolyscopeVersion", "connect"}
         /\ pc[t] = "done"
         /\ cur[t] = "request"
         /\ ret[t] \in {"true", "false"})
            => (e_series_ <=> Components(polyscope_version_)[1] >= 5)

\* C8: a command whose threshold for the cached variant is the "only
\* available on the other variant" text never passes its gate and exchanges
\* nothing, whatever version is cached.
C8_SentinelAlwaysFails ==
    \A t \in Threads :
        (GatedWithVersion(t) /\ Threshold(t) \in Sentinels)
            => ~GatePassed(t) /\ writes[t] = 0 /\ reads[t] = 0

\* C9: on a client that has never recorded a version, a gated command that
\* has left its gate has returned false without writing or reading.
C9_NoVersionFailsClosed ==
    \A t \in Threads :
        (op[t].name \in GatedNames /\ polyscope_version_ = NoText /\ pc[t] # "gate")
            => pc[t] = "done" /\ ret[t] = "false" /\ writes[t] = 0 /\ reads[t] = 0

\* The timeout of DoubleOfQuarters(q) gives back q.
Quarters(timeout) == timeout[1] \div (16 * 1024)
\* The smallest n >= 0 with n * 100 ms >= q * 250 ms.
Attempts(q) == IF q <= 0 THEN 0 ELSE (5 * q + 1) \div 2

\* C10: a waitForReply whose status reply never matches returns false after
\* exactly n queries, n the smallest non-negative integer with
\* n * 100 ms >= timeout.
C10_PollCount ==
    \A t \in Threads :
        (op[t].kind = "waitForReply" /\ pc[t] = "done" /\ ret[t] = "false")
            => npoll[t] = Attempts(Quarters(op[t].timeout))

\* C11: waitForReply sends the same query, its command, on every attempt; a
\* reply that matches expected ends it with true, one that does not sends it
\* to sleep; and once ended it sends no query and sleeps no more.
C11_PollUntilMatch ==
    [][\A t \in Threads :
           /\ (cur[t] = "wait" /\ reads'[t] = reads[t] + 1) =>
                  IF regex_match(response'[t], op[t].waitExpected)
                  THEN pc'[t] = "done" /\ ret'[t] = "true"
                  ELSE pc'[t] = "sleep"
           /\ (cur'[t] = "wait" /\ writes'[t] = writes[t] + 1) =>
                  toServer' = Append(toServer, [command |-> op[t].wait, from |-> t])
           /\ pc[t] = "done" =>
                  \/ pc'[t] = "idle"
                  \/ pc'[t] = "done" /\ writes'[t] = writes[t] /\ count'[t] = count[t]]_vars

\* C11 witness: a waitForReply has returned true on its second or a later
\* query, the earlier replies not having matched.
C11_Witness ==
    \E t \in Threads :
        /\ op[t].kind = "waitForReply"
        /\ pc[t] = "done"
        /\ ret[t] = "true"
        /\ npoll[t] >= 2
        /\ writes[t] = npoll[t]
        /\ regex_match(response[t], op[t].waitExpected)

\* C12: a retryCommand whose trigger is acknowledged every time and whose
\* status never matches returns false after sending the trigger exactly as
\* many times as its attempt budget says.
C12_RetryBound ==
    \A t \in Threads :
        (op[t].kind = "retryCommand" /\ pc[t] = "done" /\ ret[t] = "false")
            => retry[t] = op[t].attempts

\* C13: in retryCommand a reply to the request that does not match the
\* expected response ends the operation with UrException at once, in whichever
\* iteration it comes: the request is not sent again, no status query follows
\* and the outcome is not false; a status poll that matches makes the
\* operation return true at once, with no further request.
C13_RequestMismatchThrows ==
    [][\A t \in Threads : op[t].kind = "retryCommand" =>
           /\ (/\ cur[t] = "request"
               /\ reads'[t] = reads[t] + 1
               /\ ~regex_match(response'[t], op[t].expected)) =>
                  /\ pc'[t] = "done"
                  /\ ret'[t] = "UrException"
                  /\ retry'[t] = retry[t]
           /\ (/\ cur[t] = "wait"
               /\ reads'[t] = reads[t] + 1
               /\ regex_match(response'[t], op[t].waitExpected)) =>
                  /\ pc'[t] = "done"
                  /\ ret'[t] = "true"
           /\ pc[t] = "done" =>
                  \/ pc'[t] = "idle"
                  \/ pc'[t] = "done" /\ writes'[t] = writes[t] /\ ret'[t] = ret[t]]_vars

\* C13 happens: a retryCommand whose request was accepted once is thrown out of
\* by a later reply to the request that does not match.
C13_Witness ==
    \E t \in Threads :
        /\ op[t].kind = "retryCommand"
        /\ pc[t] = "done"
        /\ ret[t] = "UrException"
        /\ retry[t] >= 1
        /\ cur[t] = "request"
        /\ ~regex_match(response[t], op[t].expected)
        /\ pending[t].command = op[t].request

\* C14: a connect whose setup succeeded reads one line, the greeting, before
\* it has written anything; the one request it writes is the version query,
\* written after the greeting was read and onto a connection nothing else was
\* written on; and it returns true only with the reply to that query recorded
\* in polyscope_version_ and e_series_.  The callers keep connect apart from
\* other calls.
Connecting(t) == op[t].kind = "connect" /\ pc[t] \notin {"idle", "connect", "done"}
C15_ConnectReturnsFalse ==
    \A t \in Threads :
        (/\ op[t].kind = "connect"
         /\ pc[t] = "done"
         /\ reads[t] = 0
         /\ writes[t] = 0
         /\ cur[t] # "greeting") =>
            ret[t] = "false"

\* C16: a thread that comes to send a command line while the client is not
\* connected ends its operation with the UrException of the failed send: the
\* step reads nothing, writes nothing, leaves both streams as they were and
\* leaves write_mutex_ free of the thread; and the operation that has ended
\* sends nothing more.
FailedToSend ==
    <<"Failed to send request to dashboard server. ",
      "Are you connected to the Dashboard Server?">>
C16_FailedSendThrows ==
    [][\A t \in Threads :
           /\ (/\ pc[t] \in {"request", "wait"}
               /\ pc[t] = "wait" => DoubleLess(count[t], op[t].timeout)
               /\ pc'[t] # pc[t]
               /\ state_ = "Disconnected") =>
                  /\ pc'[t] = "done"
                  /\ ret'[t] = "UrException"
                  /\ what'[t] = FailedToSend
                  /\ reads'[t] = reads[t]
                  /\ writes'[t] = writes[t]
                  /\ toServer' = toServer
                  /\ toClient' = toClient
                  /\ write_mutex_' # t
           /\ (pc[t] = "done" /\ what[t] = FailedToSend) =>
                  \/ pc'[t] = "idle"
                  \/ /\ pc'[t] = "done"
                     /\ writes'[t] = writes[t]
                     /\ reads'[t] = reads[t]
                     /\ ret'[t] = "UrException"]_vars

\* C16 happens: a command called on a client that is not connected has ended
\* with the UrException of the failed send while the other thread is inside
\* an operation of its own.
C16_Witness ==
    \E t \in Threads : \E u \in Threads \ {t} :
        /\ op[t].kind \notin {"connect", "disconnect"}
        /\ pc[t] = "done"
        /\ ret[t] = "UrException"
        /\ what[t] = FailedToSend
        /\ state_ = "Disconnected"
        /\ reads[t] = 0
        /\ writes[t] = 0
        /\ write_mutex_ # t
        /\ pc[u] # "idle"

\* C17: whenever sendRequest or sendRequestString gets a response that, once
\* trimmed, does not match expected, the operation ends with an UrException
\* whose message holds both expected and the response; it ends with neither
\* false nor the response as its value, and it sends nothing more.
UsesSendRequest(o) == o.kind \notin {"sendAndReceive", "waitForReply", "disconnect", ""}
C17_MismatchThrows ==
    [][\A t \in Threads :
           /\ (/\ UsesSendRequest(op[t])
               /\ cur[t] = "request"
               /\ reads'[t] = reads[t] + 1
               /\ ~regex_match(response'[t], op[t].expected)) =>
                  /\ pc'[t] = "done"
                  /\ ret'[t] = "UrException"
                  /\ what'[t] = <<"Expected: ", op[t].expected, ", but received: ",
                                  response'[t]>>
                  /\ response'[t] = rtrim(Head(toClient).line)
           /\ (pc[t] = "done" /\ ret[t] = "UrException") =>
                  \/ pc'[t] = "idle"
                  \/ pc'[t] = "done" /\ writes'[t] = writes[t] /\ ret'[t] = ret[t]]_vars

\* C17 happens: a command built on sendRequestString has been thrown out of by
\* a response that does not match, with one write and one read.
C17_Witness ==
    \E t \in Threads :
        /\ op[t].kind \in {"sendRequestString", "sendRequestString!"}
        /\ pc[t] = "done"
        /\ ret[t] = "UrException"
        /\ writes[t] = 1
        /\ reads[t] = 1
        /\ response[t] # NoText
        /\ ~regex_match(response[t], op[t].expected)
        /\ what[t] = <<"Expected: ", op[t].expected, ", but received: ", response[t]>>

\* C18: read() stops at the line terminator or after a fixed number of bytes,
\* whichever comes first: no response holds more than read_chars characters.
C18_ReadIsBounded ==
    \A t \in Threads : Len(response[t]) <= read_chars

\* C19: every step in which a thread changes polyscope_version_, e_series_ or
\* the connection state is taken while that thread holds write_mutex_, the
\* mutex of the exchanges.
C19_MutationsUnderMutex ==
    [][\A t \in Threads :
           (/\ pc'[t] # pc[t]
            /\ \/ polyscope_version_' # polyscope_version_
               \/ e_series_' # e_series_
               \/ state_' # state_) =>
               write_mutex_ = t]_vars

\* C20: lessThanVersion compares the two version strings as tuples of
\* integers, a component a string does not have counting as 0: it returns
\* true when the tuple of the reference is below the tuple of the cached
\* version and does not when it is above ("3.9" is below "3.10").
C20_NumericOrder ==
    \A t \in Threads :
        (op[t].kind = "lessThanVersion" /\ pc[t] = "done") =>
            /\ TupleLess(Components(Threshold(t)), Components(polyscope_version_)) =>
                   ret[t] = "true"
            /\ TupleLess(Components(polyscope_version_), Components(Threshold(t))) =>
                   ret[t] # "true"

Cached == <<state_, polyscope_version_, e_series_>>
C22_ConnectionFrame ==
    [][/\ (state_ = "Connected" /\ state_' # "Connected") =>
              \E t \in Threads :
                  \/ pc[t] = "disconnect" /\ pc'[t] = "done"
                  \/ pc[t] = "read" /\ pc'[t] = "done" /\ ret'[t] = "TimeoutException"
       /\ \A t \in Threads :
              /\ (pc[t] = "gate" /\ pc'[t] = "done") => Cached' = Cached
              /\ (reads'[t] = reads[t] + 1 /\ ret'[t] = "UrException") => Cached' = Cached
              /\ (pc[t] \in {"request", "wait"} /\ pc'[t] = "done") => Cached' = Cached]_vars

\* C22 happens: a retryCommand has run out of attempts and returned false on
\* a client that is still connected and still has its version.
C22_Witness ==
    \E t \in Threads :
        /\ op[t].kind = "retryCommand"
        /\ pc[t] = "done"
        /\ ret[t] = "false"
        /\ retry[t] >= 2
        /\ state_ = "Connected"
        /\ polyscope_version_ = <<"5", ".", "9", ".", "4">>

\* C23: in a command of the form sendRequest(..) && waitForReply(..) (power
\* off, brake release, load program, play, pause, stop, restart safety) a
\* status query is written only after the reply to the request has been read
\* and has matched expected, and the command ends with true exactly when the
\* last thing it read is a reply to its status query that matches
\* waitExpected.
RequestThenWait ==
    {"commandPowerOff", "commandBrakeRelease", "commandLoadProgram", "commandPlay",
     "commandPause", "commandStop", "commandRestartSafety"}
C23_StatusAfterRequest ==
    [][\A t \in Threads : op[t].name \in RequestThenWait =>
           /\ (writes'[t] = writes[t] + 1 /\ pending'[t].command = op[t].wait) =>
                  /\ reads[t] = writes[t]
                  /\ reads[t] >= 1
                  /\ npoll[t] = 0 =>
                         /\ got[t].command = op[t].request
                         /\ regex_match(response[t], op[t].expected)
           /\ (writes'[t] = writes[t] + 1 /\ pending'[t].command # op[t].wait) =>
                  /\ writes[t] = 0
                  /\ pending'[t].command = op[t].request
           /\ (pc'[t] = "done" /\ pc[t] # "done") =>
                  (ret'[t] = "true" <=>
                       /\ cur[t] = "wait"
                       /\ reads'[t] = reads[t] + 1
                       /\ got'[t].command = op[t].wait
                       /\ regex_match(response'[t], op[t].waitExpected))]_vars

\* C23 happens: commandLoadProgram("demo.urp") has returned true after
\* "Loading program: demo.urp" and, to a later programState query,
\* "STOPPED demo.urp".
C23_Witness ==
    \E t \in Threads :
        /\ op[t].name = "commandLoadProgram"
        /\ pc[t] = "done"
        /\ ret[t] = "true"
        /\ npoll[t] >= 2
        /\ reads[t] = npoll[t] + 1
        /\ got[t].command = "programState"
        /\ response[t] = Pattern.STOPPED_sp \o Argument.program

\* C24: no thread holds write_mutex_ for ever: a thread that holds the mutex
\* lets it go, so that a caller waiting to start an exchange can take it.
C24_MutexLetGo ==
    \A t \in Threads : (write_mutex_ = t) ~> (write_mutex_ # t)

\* C25: the enlarged receive timeout of commandGenerateFlightReport and
\* commandGenerateSupportFile is that of the command's own exchange and of no
\* other, whatever the other thread does: no exchange of another command
\* runs with 180 s or 600 s, and the exchange of one of the two commands runs
\* with the tv_sec of that command.
C25_TimeoutOfOwnExchange ==
    \A t \in Threads :
        (pc[t] = "read" /\ cur[t] # "greeting") =>
            IF op[t].kind = "setReceiveTimeout"
            THEN recv_timeout_ = op[t].tv_sec
            ELSE recv_timeout_ \notin {commandGenerateFlightReport.tv_sec,
                                       commandGenerateSupportFile.tv_sec}

\* C26: a call of waitForReply or of retryCommand ends, whatever the timeout
\* and the number of attempts, as every exchange of it ends.  The sleep after
\* a status answer that does not match makes the elapsed time strictly
\* larger, an answered trigger of retryCommand makes the retry counter one
\* larger, the number of status queries of one waiting loop is bounded by the
\* timeout, and the call ends with true, with false or with an exception.
Polling(t) ==
    /\ op[t].kind \in {"waitForReply", "retryCommand"}
    /\ pc[t] \notin {"idle", "done"}

====
